---- MODULE Spec2Model ----
(***************************************************************************)
(* Model of main.py of meuGPT: the identifier codec                        *)
(* (converte_nome_mensagem / desconverte_nome_mensagem), the conversation  *)
(* store kept in PASTA_MENSAGENS (salvar_mensagens, ler_mensagens,         *)
(* ler_mensagem_por_nome_arquivo, listar_conversas), the process-wide      *)
(* CACHE_DESCONVERTE and the streaming loop of pagina_principal.           *)
(*                                                                         *)
(* A text is a sequence of characters; a character is a one-token string.  *)
(* "A~" stands for the accented letter A-tilde and "sz" for the sharp s,   *)
(* the two non-ASCII characters of the model.                              *)
(***************************************************************************)
EXTENDS Integers, Sequences, FiniteSets, TLC

VARIABLES
    arquivos,           \* the files of PASTA_MENSAGENS
    relogio,            \* the clock of the file system: the time of the last write
    CACHE_DESCONVERTE,  \* the module-level dictionary
    session_state,      \* st.session_state: 'mensagens' and 'conversa_atual'
    pc,                 \* where the script run of the session stands
    mensagens,          \* the local variable mensagens of pagina_principal
    respostas,          \* the stream chat_openai returned
    pos,                \* the number of fragments of respostas consumed
    resposta_completa,  \* the local variable resposta_completa
    leituras,           \* the number of open(..., 'rb') of the direct calls
    decodificados,      \* identifier -> the value its first successful decode returned
    ultima              \* the last call: its arguments and what it returned or raised

vars == <<arquivos, relogio, CACHE_DESCONVERTE, session_state, pc, mensagens,
          respostas, pos, resposta_completa, leituras, decodificados, ultima>>

(***************************************************************************)
(* Bounds of the model.                                                    *)
(***************************************************************************)
MaxSaves == 3
MaxLeituras == 2
MaxLen == 3
\* SpecStream: the fragments of a stream and the exchanges of the session.
MaxFragmentos == 3
MaxTrocasStream == 1
\* SpecApp: the exchanges of the session and the fragments of a stream.
MaxTrocas == 2
MaxFragmentosApp == 1

(***************************************************************************)
(* Program constants.                                                      *)
(***************************************************************************)
\* The length of a display title: content[:30] in retorna_nome_da_mensagem.
TamanhoTitulo == 30

(***************************************************************************)
(* Characters.                                                             *)
(***************************************************************************)
Minusculas == {"a", "b", "c", "h", "i", "s"}
Maiusculas == {"A", "H"}
Digitos == {"1"}
Ascii == Minusculas \cup Maiusculas \cup Digitos \cup {"_", " ", "?"}
Caracteres == Ascii \cup {"A~", "sz"}

\* The texts over the set S of at most n characters.
Textos(S, n) == UNION {[1..k -> S] : k \in 0..n}

\* The text of n times the character c.
Repete(c, n) == [k \in 1..n |-> c]

\* The concatenation of the texts of the sequence ss.
RECURSIVE Concatena(_)
Concatena(ss) == IF ss = <<>> THEN <<>> ELSE Head(ss) \o Concatena(Tail(ss))

(***************************************************************************)
(* converte_nome_mensagem: unidecode, re.sub(r'\W+', '', .), lower().      *)
(***************************************************************************)
\* unidecode on one character: ASCII is kept, the others are transliterated.
UnidecodeChar(c) ==
    CASE c = "A~" -> <<"A">>
      [] c = "sz" -> <<"s", "s">>
      [] OTHER    -> <<c>>

unidecode(texto) == Concatena([k \in 1..Len(texto) |-> UnidecodeChar(texto[k])])

\* \w of an ASCII text: a letter, a digit or the underscore.
EhPalavra(c) == c \in Minusculas \cup Maiusculas \cup Digitos \cup {"_"}

\* re.sub(r'\W+', '', texto): every maximal run of non-word characters is removed.
RemoveNaoPalavra(texto) == SelectSeq(texto, EhPalavra)

LowerChar(c) ==
    CASE c = "A" -> "a"
      [] c = "H" -> "h"
      [] OTHER   -> c

lower(texto) == [k \in 1..Len(texto) |-> LowerChar(texto[k])]

\* The identifier of a non-empty title (the caller gets ValueError on an empty one).
converte_nome_mensagem(nome_mensagem) ==
    lower(RemoveNaoPalavra(unidecode(nome_mensagem)))

\* The empty title raises ValueError.
ConverteLevantaErro(nome_mensagem) == nome_mensagem = <<>>

(***************************************************************************)
(* Turns and transcripts.                                                  *)
(***************************************************************************)
Turno(role, content) == [role |-> role, content |-> content]

\* texto[:n]
Prefixo(texto, n) == SubSeq(texto, 1, IF Len(texto) < n THEN Len(texto) ELSE n)

EhUsuario(m) == m.role = "user"

\* The mutant of retorna_nome_da_mensagem that takes the first turn of any role.
retorna_nome_de_qualquer_papel(ms) ==
    IF ms = <<>> THEN <<>> ELSE Prefixo(ms[1].content, TamanhoTitulo)

\* The first 30 characters of the first user turn; '' when there is none.
retorna_nome_da_mensagem(ms) ==
    LET usuarios == SelectSeq(ms, EhUsuario)
    IN  IF usuarios = <<>> THEN <<>>
        ELSE Prefixo(usuarios[1].content, TamanhoTitulo)

(***************************************************************************)
(* The directory PASTA_MENSAGENS: a function from file names to            *)
(* [conteudo, mtime]; conteudo is the pickled dictionary                   *)
(* {nome_mensagem, nome_arquivo, mensagem}.                                *)
(***************************************************************************)
SemArquivos == [n \in {} |-> 0]

\* PASTA_MENSAGENS / '' is the directory itself: open() raises
\* IsADirectoryError, an OSError.
EhDiretorio(nome_arquivo) == nome_arquivo = <<>>

\* The mutant of AbreEscritaFalha for which the empty file name opens too.
AbreEscritaNuncaFalha(nome_arquivo) == FALSE

\* open(caminho, 'wb') raises OSError.
AbreEscritaFalha(nome_arquivo) == EhDiretorio(nome_arquivo)

\* open(caminho, 'rb'): "" when the file opens, else the exception raised.
AbreLeitura(arqs, nome_arquivo) ==
    IF EhDiretorio(nome_arquivo) THEN "IsADirectoryError"
    ELSE IF nome_arquivo \notin DOMAIN arqs THEN "FileNotFoundError"
    ELSE ""

\* The mutant of arquivo_salvar that names the file by the title as it is.
arquivo_salvar_sem_converter(ms) ==
    [nome_mensagem |-> retorna_nome_da_mensagem(ms),
     nome_arquivo  |-> retorna_nome_da_mensagem(ms),
     mensagem      |-> ms]

\* The dictionary salvar_mensagens pickles.
arquivo_salvar(ms) ==
    [nome_mensagem |-> retorna_nome_da_mensagem(ms),
     nome_arquivo  |-> converte_nome_mensagem(retorna_nome_da_mensagem(ms)),
     mensagem      |-> ms]

\* The mutant of Escreve that empties the directory before it writes.
EscreveSozinho(arqs, nome_arquivo, conteudo, t) ==
    (nome_arquivo :> [conteudo |-> conteudo, mtime |-> t])

\* The mutant of Escreve that opens with 'ab': the turns are added to the old ones.
EscreveAcrescenta(arqs, nome_arquivo, conteudo, t) ==
    (nome_arquivo :>
        [conteudo |-> IF nome_arquivo \in DOMAIN arqs
                      THEN [conteudo EXCEPT !.mensagem =
                                arqs[nome_arquivo].conteudo.mensagem \o @]
                      ELSE conteudo,
         mtime |-> t]) @@ arqs

\* open(caminho, 'wb') and pickle.dump: the file is created or truncated and
\* holds the new dictionary alone; its modification time is the time t.
Escreve(arqs, nome_arquivo, conteudo, t) ==
    (nome_arquivo :> [conteudo |-> conteudo, mtime |-> t]) @@ arqs

\* The value salvar_mensagens returns.
SalvarRet(ms) ==
    IF ms = <<>> THEN FALSE
    ELSE IF retorna_nome_da_mensagem(ms) = <<>> THEN FALSE
    ELSE ~AbreEscritaFalha(converte_nome_mensagem(retorna_nome_da_mensagem(ms)))

\* The directory after salvar_mensagens(ms) at time t.
SalvarArquivos(arqs, ms, t) ==
    IF SalvarRet(ms)
    THEN Escreve(arqs, arquivo_salvar(ms).nome_arquivo, arquivo_salvar(ms), t)
    ELSE arqs

\* The value salvar_mensagens returns when the file system may refuse the
\* write: oserror says that open(caminho, 'wb') raises an OSError, which the
\* except clause turns into False.
SalvarRetCom(ms, oserror) == SalvarRet(ms) /\ ~oserror

\* The directory after that call: a refused open() writes nothing.
SalvarArquivosCom(arqs, ms, t, oserror) ==
    IF oserror THEN arqs ELSE SalvarArquivos(arqs, ms, t)

\* ler_mensagens reaches its open() call.
LerMensagensAbre(ms) == ms # <<>> /\ retorna_nome_da_mensagem(ms) # <<>>

\* The exception ler_mensagens raises ("" for none): FileNotFoundError is
\* caught, any other OSError of open() is not.
LerMensagensErro(arqs, ms) ==
    IF ~LerMensagensAbre(ms) THEN ""
    ELSE LET e == AbreLeitura(arqs, converte_nome_mensagem(retorna_nome_da_mensagem(ms)))
         IN  IF e = "FileNotFoundError" THEN "" ELSE e

\* The value ler_mensagens returns when it raises nothing.  Every file was
\* written by salvar_mensagens, so the key 'mensagem' is always present.
ler_mensagens(arqs, ms) ==
    IF ~LerMensagensAbre(ms) THEN <<>>
    ELSE LET nome_arquivo == converte_nome_mensagem(retorna_nome_da_mensagem(ms))
         IN  IF AbreLeitura(arqs, nome_arquivo) = ""
             THEN arqs[nome_arquivo].conteudo.mensagem
             ELSE <<>>

\* Path.stem: the file name without its last suffix.
Stem(nome) ==
    LET pontos == {k \in 2..Len(nome) : nome[k] = "."}
    IN  IF pontos = {} THEN nome
        ELSE SubSeq(nome, 1, (CHOOSE k \in pontos : \A j \in pontos : j <= k) - 1)

\* The mutant of OrdenaPorMtime without reverse=True.
RECURSIVE OrdenaSemReverse(_, _)
OrdenaSemReverse(arqs, S) ==
    IF S = {} THEN <<>>
    ELSE LET antigo == CHOOSE n \in S : \A m \in S : arqs[n].mtime <= arqs[m].mtime
         IN  <<antigo>> \o OrdenaSemReverse(arqs, S \ {antigo})

\* sorted(conversas, key=st_mtime_ns, reverse=True) of the files S.  The times
\* of the files are distinct, so the order of glob() decides nothing.
RECURSIVE OrdenaPorMtime(_, _)
OrdenaPorMtime(arqs, S) ==
    IF S = {} THEN <<>>
    ELSE LET recente == CHOOSE n \in S : \A m \in S : arqs[m].mtime <= arqs[n].mtime
         IN  <<recente>> \o OrdenaPorMtime(arqs, S \ {recente})

\* listar_conversas(): glob('*'), the sort, and the stem of each path.
listar_conversas(arqs) ==
    LET conversas == OrdenaPorMtime(arqs, DOMAIN arqs)
    IN  [k \in 1..Len(conversas) |-> Stem(conversas[k])]

(***************************************************************************)
(* desconverte_nome_mensagem.                                              *)
(***************************************************************************)
\* The mutant of DesconverteLe that never finds the identifier in the cache.
DesconverteSempreLe(cache, nome_arquivo) == TRUE

\* desconverte_nome_mensagem reads the store: the identifier is not cached.
DesconverteLe(cache, nome_arquivo) == nome_arquivo \notin DOMAIN cache

\* The exception desconverte_nome_mensagem raises ("" for none).
DesconverteErro(cache, arqs, nome_arquivo) ==
    IF DesconverteLe(cache, nome_arquivo) THEN AbreLeitura(arqs, nome_arquivo) ELSE ""

\* The mutant of DesconverteCache that caches '' for a file it could not read.
DesconverteCacheSempre(cache, arqs, nome_arquivo) ==
    IF nome_arquivo \in DOMAIN cache THEN cache
    ELSE IF AbreLeitura(arqs, nome_arquivo) = ""
    THEN (nome_arquivo :> arqs[nome_arquivo].conteudo.nome_mensagem) @@ cache
    ELSE (nome_arquivo :> <<>>) @@ cache

\* CACHE_DESCONVERTE after desconverte_nome_mensagem(nome_arquivo).
DesconverteCache(cache, arqs, nome_arquivo) ==
    IF DesconverteLe(cache, nome_arquivo) /\ AbreLeitura(arqs, nome_arquivo) = ""
    THEN (nome_arquivo :> arqs[nome_arquivo].conteudo.nome_mensagem) @@ cache
    ELSE cache

\* The value desconverte_nome_mensagem returns when it raises nothing.
desconverte_nome_mensagem(cache, arqs, nome_arquivo) ==
    DesconverteCache(cache, arqs, nome_arquivo)[nome_arquivo]

(***************************************************************************)
(* The last call and what it returned or raised.                           *)
(***************************************************************************)
SemRegistro == [nome_mensagem |-> <<>>, nome_arquivo |-> <<>>, mensagem |-> <<>>]

\* havia, antes: the dictionary the file of a successful save held before the call;
\* for a stream that raised, havia says that a part of the reply had arrived.
Chamada(op, turns, nome, ret_b, ret_turns, ret_nome, ret_lista, erro, havia, antes) ==
    [op |-> op, turns |-> turns, nome |-> nome, ret_b |-> ret_b,
     ret_turns |-> ret_turns, ret_nome |-> ret_nome, ret_lista |-> ret_lista,
     erro |-> erro, havia |-> havia, antes |-> antes]

NenhumaChamada ==
    Chamada("", <<>>, <<>>, FALSE, <<>>, <<>>, <<>>, "", FALSE, SemRegistro)

\* The record of a call salvar_mensagens(ms) made with the files arqs.
ChamadaSalvar(arqs, ms) ==
    LET nome_arquivo == arquivo_salvar(ms).nome_arquivo
        havia == SalvarRet(ms) /\ nome_arquivo \in DOMAIN arqs
    IN  Chamada("salvar_mensagens", ms, <<>>, SalvarRet(ms), <<>>, <<>>, <<>>, "",
                havia, IF havia THEN arqs[nome_arquivo].conteudo ELSE SemRegistro)

\* The record of that call when the file system may refuse the write.
ChamadaSalvarCom(arqs, ms, oserror) ==
    IF oserror
    THEN Chamada("salvar_mensagens", ms, <<>>, FALSE, <<>>, <<>>, <<>>, "",
                 FALSE, SemRegistro)
    ELSE ChamadaSalvar(arqs, ms)

\* decodificados after a decode of nome_arquivo that raised erro or returned valor.
Decodificou(dec, nome_arquivo, erro, valor) ==
    IF erro = "" /\ nome_arquivo \notin DOMAIN dec
    THEN (nome_arquivo :> valor) @@ dec
    ELSE dec

(***************************************************************************)
(* Inputs of the calls.                                                    *)
(***************************************************************************)
Oi == <<"H", "i">>
oi == <<"h", "i">>
Longo1 == Repete("c", TamanhoTitulo) \o <<"a">>
Longo2 == Repete("c", TamanhoTitulo) \o <<"b">>
Pontuacao == <<"?", " ">>

Transcricoes ==
    { <<>>,
      <<Turno("assistant", oi)>>,
      <<Turno("user", <<>>)>>,
      <<Turno("user", Oi), Turno("assistant", <<"b">>)>>,
      <<Turno("user", oi), Turno("assistant", <<"b">>)>>,
      <<Turno("assistant", oi), Turno("user", Oi), Turno("assistant", <<"a">>)>>,
      <<Turno("user", <<"b">>)>>,
      <<Turno("user", Longo1)>>,
      <<Turno("user", Longo2), Turno("assistant", oi)>>,
      <<Turno("user", Pontuacao), Turno("assistant", oi)>> }

NomesDeArquivo == {oi, <<"b">>, Repete("c", TamanhoTitulo), <<"a">>, <<>>}

(***************************************************************************)
(* Initial state: an empty directory, an empty cache, a fresh session.     *)
(***************************************************************************)
\* inicializacao() on a fresh session.
inicializacao == [mensagens |-> <<>>, conversa_atual |-> <<>>]

Init ==
    /\ arquivos = SemArquivos
    /\ relogio = 0
    /\ CACHE_DESCONVERTE = SemArquivos
    /\ session_state = inicializacao
    /\ pc = "ocioso"
    /\ mensagens = <<>>
    /\ respostas = <<>>
    /\ pos = 0
    /\ resposta_completa = <<>>
    /\ leituras = 0
    /\ decodificados = SemArquivos
    /\ ultima = NenhumaChamada

App == <<session_state, pc, mensagens, respostas, pos, resposta_completa>>

(***************************************************************************)
(* Spec: the functions of the store and of the codec, called directly.     *)
(***************************************************************************)
SalvarMensagens(ms, oserror) ==
    /\ SalvarRetCom(ms, oserror) => relogio < MaxSaves
    /\ arquivos' = SalvarArquivosCom(arquivos, ms, relogio + 1, oserror)
    /\ relogio' = IF SalvarRetCom(ms, oserror) THEN relogio + 1 ELSE relogio
    /\ ultima' = ChamadaSalvarCom(arquivos, ms, oserror)
    /\ UNCHANGED <<CACHE_DESCONVERTE, leituras, decodificados, App>>

LerMensagens(ms) ==
    /\ LerMensagensAbre(ms) => leituras < MaxLeituras
    /\ leituras' = IF LerMensagensAbre(ms) THEN leituras + 1 ELSE leituras
    /\ ultima' = Chamada("ler_mensagens", ms, <<>>, FALSE,
                         IF LerMensagensErro(arquivos, ms) = ""
                         THEN ler_mensagens(arquivos, ms) ELSE <<>>,
                         <<>>, <<>>, LerMensagensErro(arquivos, ms), FALSE, SemRegistro)
    /\ UNCHANGED <<arquivos, relogio, CACHE_DESCONVERTE, decodificados, App>>

\* ler_mensagem_por_nome_arquivo(nome_arquivo, key='mensagem')
LerMensagemPorNomeArquivo(nome_arquivo) ==
    /\ leituras < MaxLeituras
    /\ leituras' = leituras + 1
    /\ ultima' = Chamada("ler_mensagem_por_nome_arquivo", <<>>, nome_arquivo, FALSE,
                         IF AbreLeitura(arquivos, nome_arquivo) = ""
                         THEN arquivos[nome_arquivo].conteudo.mensagem ELSE <<>>,
                         <<>>, <<>>, AbreLeitura(arquivos, nome_arquivo),
                         FALSE, SemRegistro)
    /\ UNCHANGED <<arquivos, relogio, CACHE_DESCONVERTE, decodificados, App>>

DesconverteNomeMensagem(nome_arquivo) ==
    LET erro  == DesconverteErro(CACHE_DESCONVERTE, arquivos, nome_arquivo)
        valor == IF erro = ""
                 THEN desconverte_nome_mensagem(CACHE_DESCONVERTE, arquivos, nome_arquivo)
                 ELSE <<>>
    IN  /\ DesconverteLe(CACHE_DESCONVERTE, nome_arquivo) => leituras < MaxLeituras
        /\ leituras' = IF DesconverteLe(CACHE_DESCONVERTE, nome_arquivo)
                       THEN leituras + 1 ELSE leituras
        /\ CACHE_DESCONVERTE' =
               DesconverteCache(CACHE_DESCONVERTE, arquivos, nome_arquivo)
        /\ decodificados' = Decodificou(decodificados, nome_arquivo, erro, valor)
        /\ ultima' = Chamada("desconverte_nome_mensagem", <<>>, nome_arquivo, FALSE,
                             <<>>, valor, <<>>, erro, FALSE, SemRegistro)
        /\ UNCHANGED <<arquivos, relogio, App>>

ListarConversas ==
    /\ ultima' = Chamada("listar_conversas", <<>>, <<>>, FALSE, <<>>, <<>>,
                         listar_conversas(arquivos), "", FALSE, SemRegistro)
    /\ UNCHANGED <<arquivos, relogio, CACHE_DESCONVERTE, leituras, decodificados, App>>

Next ==
    \/ \E ms \in Transcricoes :
           \E oserror \in (IF SalvarRet(ms) THEN BOOLEAN ELSE {FALSE}) :
               SalvarMensagens(ms, oserror)
    \/ \E ms \in Transcricoes : LerMensagens(ms)
    \/ \E nome_arquivo \in NomesDeArquivo : LerMensagemPorNomeArquivo(nome_arquivo)
    \/ \E nome_arquivo \in NomesDeArquivo : DesconverteNomeMensagem(nome_arquivo)
    \/ ListarConversas

Spec == Init /\ [][Next]_vars

(***************************************************************************)
(* SpecCodec: converte_nome_mensagem applied to every title of at most     *)
(* MaxLen characters.                                                      *)
(***************************************************************************)
Entrada(nome_mensagem) ==
    Chamada("entrada", <<>>, nome_mensagem, FALSE, <<>>, <<>>, <<>>, "",
            FALSE, SemRegistro)

InitCodec ==
    /\ arquivos = SemArquivos
    /\ relogio = 0
    /\ CACHE_DESCONVERTE = SemArquivos
    /\ session_state = inicializacao
    /\ pc = "ocioso"
    /\ mensagens = <<>>
    /\ respostas = <<>>
    /\ pos = 0
    /\ resposta_completa = <<>>
    /\ leituras = 0
    /\ decodificados = SemArquivos
    /\ \E nome_mensagem \in Textos(Caracteres, MaxLen) : ultima = Entrada(nome_mensagem)

ConverteNomeMensagem ==
    /\ ultima.op = "entrada"
    /\ ultima' = Chamada("converte_nome_mensagem", <<>>, ultima.nome, FALSE, <<>>,
                         IF ConverteLevantaErro(ultima.nome) THEN <<>>
                         ELSE converte_nome_mensagem(ultima.nome),
                         <<>>,
                         IF ConverteLevantaErro(ultima.nome) THEN "ValueError" ELSE "",
                         FALSE, SemRegistro)
    /\ UNCHANGED <<arquivos, relogio, CACHE_DESCONVERTE, leituras, decodificados, App>>

NextCodec == ConverteNomeMensagem

SpecCodec == InitCodec /\ [][NextCodec]_vars

(***************************************************************************)
(* The session of the Streamlit script.  Every interaction runs             *)
(* the script again: inicializacao, pagina_principal, tab_conversas.       *)
(* pc is "ocioso" when a run has ended and the page waits for the user,    *)
(* "stream" inside the loop over respostas, "falhou" after chat_openai or  *)
(* the stream raised (the chat input is on the page, the sidebar is not),  *)
(* "morto" after ler_mensagens raised (nothing is on the page).            *)
(***************************************************************************)
\* One fragment of the stream: resposta.choices[0].delta.content, None or a text.
Fragmento(nulo, content) == [nulo |-> nulo, content |-> content]

Fragmentos ==
    { Fragmento(TRUE, <<>>), Fragmento(FALSE, <<>>),
      Fragmento(FALSE, <<"a">>), Fragmento(FALSE, <<"b">>) }

Prompts == {Oi, oi, Pontuacao}

PromptsApp == {Oi, <<"b">>, Pontuacao}

\* The mutant of Acumula that assigns where the code adds.
AcumulaAtribui(completa, fragmento) ==
    IF ~fragmento.nulo /\ fragmento.content # <<>>
    THEN fragmento.content
    ELSE completa

\* if resposta.choices[0].delta.content: resposta_completa += ...
Acumula(completa, fragmento) ==
    IF ~fragmento.nulo /\ fragmento.content # <<>>
    THEN completa \o fragmento.content
    ELSE completa

\* tab_conversas: desconverte_nome_mensagem of every listed conversation.
RECURSIVE DesconverteTodos(_, _, _)
DesconverteTodos(cache, arqs, lista) ==
    IF lista = <<>> THEN cache
    ELSE DesconverteTodos(DesconverteCache(cache, arqs, Head(lista)), arqs, Tail(lista))

tab_conversas(cache, arqs) == DesconverteTodos(cache, arqs, listar_conversas(arqs))

\* decodificados after tab_conversas left the cache depois.
DecodificouTodos(dec, depois, arqs) ==
    LET nomes == {listar_conversas(arqs)[k] : k \in 1..Len(listar_conversas(arqs))}
    IN  [n \in DOMAIN dec \cup nomes |-> IF n \in DOMAIN dec THEN dec[n] ELSE depois[n]]

ChamadaApp(op, turns, nome, erro) ==
    Chamada(op, turns, nome, FALSE, <<>>, <<>>, <<>>, erro, FALSE, SemRegistro)

Locais == <<mensagens, respostas, pos, resposta_completa>>

\* The script run dies in ler_mensagens (line 376).
Morre ==
    /\ pc' = "morto"
    /\ ultima' = ChamadaApp("ler_mensagens", session_state'.mensagens, <<>>,
                            LerMensagensErro(arquivos, session_state'.mensagens))
    /\ UNCHANGED <<arquivos, relogio, CACHE_DESCONVERTE, leituras, decodificados, Locais>>

\* A script run with no prompt: pagina_principal shows the turns, then tab_conversas.
Renderiza(op, nome) ==
    IF LerMensagensErro(arquivos, session_state'.mensagens) # ""
    THEN Morre
    ELSE /\ pc' = "ocioso"
         /\ CACHE_DESCONVERTE' = tab_conversas(CACHE_DESCONVERTE, arquivos)
         /\ decodificados' = DecodificouTodos(decodificados, CACHE_DESCONVERTE', arquivos)
         /\ ultima' = ChamadaApp(op, <<>>, nome, "")
         /\ UNCHANGED <<arquivos, relogio, leituras, Locais>>

\* The user sends a prompt: ler_mensagens, the user turn, chat_openai returns a stream.
\* trocas bounds the exchanges that reach the end of their stream: the clock
\* advances by one in each of them, whether its save writes or not.
Prompt(trocas, prompt, stream) ==
    /\ pc \in {"ocioso", "falhou"}
    /\ relogio < trocas
    /\ UNCHANGED session_state
    /\ IF LerMensagensErro(arquivos, session_state.mensagens) # ""
       THEN Morre
       ELSE /\ pc' = "stream"
            /\ mensagens' = Append(ler_mensagens(arquivos, session_state.mensagens),
                                   Turno("user", prompt))
            /\ respostas' = stream
            /\ pos' = 0
            /\ resposta_completa' = <<>>
            /\ ultima' = ChamadaApp("chat_openai", mensagens', <<>>, "")
            /\ UNCHANGED <<arquivos, relogio, CACHE_DESCONVERTE, leituras, decodificados>>

\* The user sends a prompt and chat_openai raises: the run ends there.
PromptFalha(trocas, prompt) ==
    /\ pc \in {"ocioso", "falhou"}
    /\ relogio < trocas
    /\ LerMensagensErro(arquivos, session_state.mensagens) = ""
    /\ pc' = "falhou"
    /\ ultima' = ChamadaApp("chat_openai",
                            Append(ler_mensagens(arquivos, session_state.mensagens),
                                   Turno("user", prompt)), <<>>, "APIError")
    /\ UNCHANGED <<arquivos, relogio, CACHE_DESCONVERTE, leituras, decodificados,
                   session_state, Locais>>

\* One turn of the loop: for resposta in respostas.
ProximoFragmento ==
    /\ pc = "stream"
    /\ pos < Len(respostas)
    /\ resposta_completa' = Acumula(resposta_completa, respostas[pos + 1])
    /\ pos' = pos + 1
    /\ UNCHANGED <<arquivos, relogio, CACHE_DESCONVERTE, leituras, decodificados,
                   session_state, pc, mensagens, respostas, ultima>>

\* The mutant of StreamFalha that keeps in the session the turns sent to the
\* model, the user turn of the prompt last.
StreamFalhaGuarda ==
    /\ pc = "stream"
    /\ pc' = "falhou"
    /\ session_state' = [session_state EXCEPT !.mensagens = mensagens]
    /\ mensagens' = <<>>
    /\ respostas' = <<>>
    /\ pos' = 0
    /\ resposta_completa' = <<>>
    /\ ultima' = Chamada("respostas", mensagens, <<>>, FALSE, <<>>, <<>>, <<>>,
                         "APIError", resposta_completa # <<>>, SemRegistro)
    /\ UNCHANGED <<arquivos, relogio, CACHE_DESCONVERTE, leituras, decodificados>>

\* The stream raises instead of giving its next fragment or ending.
StreamFalha ==
    /\ pc = "stream"
    /\ pc' = "falhou"
    /\ mensagens' = <<>>
    /\ respostas' = <<>>
    /\ pos' = 0
    /\ resposta_completa' = <<>>
    /\ ultima' = Chamada("respostas", mensagens, <<>>, FALSE, <<>>, <<>>, <<>>,
                         "APIError", resposta_completa # <<>>, SemRegistro)
    /\ UNCHANGED <<arquivos, relogio, CACHE_DESCONVERTE, leituras, decodificados,
                   session_state>>

\* The stream is exhausted: the assistant turn, the session's messages, the save
\* (which the file system refuses when oserror), and the sidebar of the same run.
FimDoStream(oserror) ==
    LET todas == Append(mensagens, Turno("assistant", resposta_completa))
    IN  /\ pc = "stream"
        /\ pos = Len(respostas)
        /\ session_state' = [session_state EXCEPT !.mensagens = todas]
        /\ arquivos' = SalvarArquivosCom(arquivos, todas, relogio + 1, oserror)
        /\ relogio' = relogio + 1
        /\ CACHE_DESCONVERTE' = tab_conversas(CACHE_DESCONVERTE, arquivos')
        /\ decodificados' = DecodificouTodos(decodificados, CACHE_DESCONVERTE', arquivos')
        /\ pc' = "ocioso"
        /\ mensagens' = <<>>
        /\ respostas' = <<>>
        /\ pos' = 0
        /\ resposta_completa' = <<>>
        /\ ultima' = ChamadaSalvarCom(arquivos, todas, oserror)
        /\ UNCHANGED leituras

\* The mutant of seleciona_conversa that reads no file.
seleciona_conversa_sem_ler(arqs, nome_arquivo) ==
    [mensagens |-> <<>>, conversa_atual |-> nome_arquivo]

\* seleciona_conversa(nome_arquivo), the callback of a button of the sidebar:
\* '' for "Nova Conversa", else a listed conversation other than the current one.
seleciona_conversa(arqs, nome_arquivo) ==
    [mensagens      |-> IF nome_arquivo = <<>> THEN <<>>
                        ELSE arqs[nome_arquivo].conteudo.mensagem,
     conversa_atual |-> nome_arquivo]

SelecionaConversa(nome_arquivo) ==
    /\ pc = "ocioso"
    /\ \/ nome_arquivo = <<>>
       \/ /\ nome_arquivo \in DOMAIN arquivos
          /\ nome_arquivo # session_state.conversa_atual
    /\ session_state' = seleciona_conversa(arquivos, nome_arquivo)
    /\ Renderiza("seleciona_conversa", nome_arquivo)

\* The page is loaded again: a fresh session of the same process.
NovaSessao ==
    /\ pc \in {"ocioso", "falhou", "morto"}
    /\ session_state' = inicializacao
    /\ Renderiza("inicializacao", <<>>)

\* The steps of a session of at most trocas exchanges, on the prompts of the
\* set prompts, with streams of at most fragmentos fragments; oserrors holds
\* TRUE when the file system may refuse a write.
Sessao(trocas, fragmentos, prompts, oserrors) ==
    \/ \E prompt \in prompts, stream \in Textos(Fragmentos, fragmentos) :
           Prompt(trocas, prompt, stream)
    \/ \E prompt \in prompts : PromptFalha(trocas, prompt)
    \/ ProximoFragmento
    \/ StreamFalha
    \/ \E oserror \in oserrors : FimDoStream(oserror)
    \/ \E nome_arquivo \in NomesDeArquivo : SelecionaConversa(nome_arquivo)
    \/ NovaSessao

(***************************************************************************)
(* SpecApp: a session of several exchanges with short streams on a file    *)
(* system that may refuse a write.                                         *)
(***************************************************************************)
NextApp == Sessao(MaxTrocas, MaxFragmentosApp, PromptsApp, BOOLEAN)

SpecApp == Init /\ [][NextApp]_vars

(***************************************************************************)
(* SpecStream: a session with long streams on a file system that refuses   *)
(* no write.                                                               *)
(***************************************************************************)
NextStream == Sessao(MaxTrocasStream, MaxFragmentos, Prompts, {FALSE})

SpecStream == Init /\ [][NextStream]_vars

(***************************************************************************)
(* The claims.                                                             *)
(***************************************************************************)
Ocorrencias(lista, n) == Cardinality({k \in 1..Len(lista) : lista[k] = n})

TemUsuario(ms) == \E k \in 1..Len(ms) : ms[k].role = "user"

Titulo == retorna_nome_da_mensagem(ultima.turns)

Identificador == converte_nome_mensagem(Titulo)

SalvouComSucesso == ultima.op = "salvar_mensagens" /\ ultima.ret_b

\* C1: once salvar_mensagens(turns) has returned True with display title T,
\* listar_conversas() contains converte_nome_mensagem(T) and
\* desconverte_nome_mensagem of that identifier returns exactly T.
C1_RoundTripViaStorage ==
    SalvouComSucesso =>
        /\ Ocorrencias(listar_conversas(arquivos), Identificador) >= 1
        /\ DesconverteErro(CACHE_DESCONVERTE, arquivos, Identificador) = ""
        /\ desconverte_nome_mensagem(CACHE_DESCONVERTE, arquivos, Identificador) = Titulo

\* C2: after a successful save over a record of the same display title, the
\* listing holds the identifier exactly once and the record's turns are exactly
\* the turns of this save.
C2_IdempotentOverwrite ==
    (SalvouComSucesso /\ ultima.havia /\ ultima.antes.nome_mensagem = Titulo) =>
        /\ Ocorrencias(listar_conversas(arquivos), Identificador) = 1
        /\ arquivos[Identificador].conteudo.mensagem = ultima.turns

C2_Witness ==
    /\ SalvouComSucesso
    /\ ultima.havia
    /\ ultima.antes.nome_mensagem = Titulo
    /\ ultima.antes.mensagem # ultima.turns
    /\ arquivos[Identificador].conteudo.mensagem = ultima.turns

\* C3: salvar_mensagens on an empty sequence, or on one with no user turn,
\* returns False and leaves the store and the cache as they were.
C3_EmptyInputGuard ==
    [][(/\ ultima'.op = "salvar_mensagens"
        /\ (ultima'.turns = <<>> \/ ~TemUsuario(ultima'.turns)))
       => (/\ ~ultima'.ret_b
           /\ arquivos' = arquivos
           /\ CACHE_DESCONVERTE' = CACHE_DESCONVERTE)]_vars

C3_Witness ==
    /\ ultima.op = "salvar_mensagens"
    /\ ultima.turns # <<>>
    /\ ~TemUsuario(ultima.turns)
    /\ ~ultima.ret_b
    /\ DOMAIN arquivos # {}
    /\ DOMAIN CACHE_DESCONVERTE # {}

\* C4: every entry of CACHE_DESCONVERTE is the display title of the record
\* now stored at its identifier.
C4_CacheEqualsStore ==
    \A id \in DOMAIN CACHE_DESCONVERTE :
        /\ id \in DOMAIN arquivos
        /\ CACHE_DESCONVERTE[id] = arquivos[id].conteudo.nome_mensagem

\* C5: ler_mensagens returns the empty sequence and raises nothing when its
\* argument is empty, has no user turn, or has no record at its identifier.
C5_LoadNeverRaises ==
    (/\ ultima.op = "ler_mensagens"
     /\ \/ ultima.turns = <<>>
        \/ ~TemUsuario(ultima.turns)
        \/ Identificador \notin DOMAIN arquivos)
    => (ultima.erro = "" /\ ultima.ret_turns = <<>>)

RECURSIVE ConteudoDosFragmentos(_)
ConteudoDosFragmentos(fs) ==
    IF fs = <<>> THEN <<>>
    ELSE (IF Head(fs).nulo THEN <<>> ELSE Head(fs).content)
         \o ConteudoDosFragmentos(Tail(fs))

\* C7: in the loop the accumulated text is the concatenation of the fragments
\* consumed so far, so it is that of the whole stream on exhaustion; the loop
\* ends normally only on exhaustion, and the assistant turn holds that text.
C7_StreamingAccumulation ==
    /\ [](pc = "stream" =>
            resposta_completa = ConteudoDosFragmentos(SubSeq(respostas, 1, pos)))
    /\ [][(pc = "stream" /\ pc' = "ocioso") =>
            /\ pos = Len(respostas)
            /\ session_state'.mensagens =
                   Append(mensagens,
                          Turno("assistant", ConteudoDosFragmentos(respostas)))]_vars

C7_Witness ==
    /\ pc = "stream"
    /\ pos = Len(respostas)
    /\ respostas = <<Fragmento(FALSE, <<"a">>), Fragmento(FALSE, <<>>),
                     Fragmento(FALSE, <<"b">>)>>
    /\ resposta_completa = <<"a", "b">>

\* C8: a decode of an identifier that an earlier decode returned a value for
\* returns that same value, raises nothing and opens no file.
C8_CacheCorrectness ==
    [][(/\ ultima'.op = "desconverte_nome_mensagem"
        /\ ultima'.nome \in DOMAIN decodificados)
       => (/\ ultima'.erro = ""
           /\ ultima'.ret_nome = decodificados[ultima'.nome]
           /\ leituras' = leituras)]_vars

C8_Witness ==
    /\ ultima.op = "desconverte_nome_mensagem"
    /\ ultima.nome = oi
    /\ ultima.ret_nome = Oi
    /\ decodificados[oi] = Oi
    /\ arquivos[oi].conteudo.nome_mensagem = oi
    /\ leituras = 1

\* C9: converte_nome_mensagem of a non-empty title holds only lowercase ASCII
\* letters and digits; the empty title raises ValueError.
C9_OutputAlphabet ==
    ultima.op = "converte_nome_mensagem" =>
        IF ultima.nome = <<>>
        THEN ultima.erro = "ValueError"
        ELSE /\ ultima.erro = ""
             /\ \A k \in 1..Len(ultima.ret_nome) :
                    ultima.ret_nome[k] \in Minusculas \cup Digitos

\* C10 as stated: a save whose display title has no alphanumeric character
\* writes the record under the empty identifier.
C10_EmptyIdentifierWritten ==
    (/\ ultima.op = "salvar_mensagens"
     /\ Titulo # <<>>
     /\ Identificador = <<>>)
    => (/\ ultima.ret_b
        /\ <<>> \in DOMAIN arquivos
        /\ arquivos[<<>>].conteudo.mensagem = ultima.turns)

\* C10 as amended: a save whose display title normalizes to the empty
\* identifier returns False and writes nothing; no record is ever stored
\* under the empty identifier.
C10_EmptyIdentifierRejected ==
    [][(/\ ultima'.op = "salvar_mensagens"
        /\ retorna_nome_da_mensagem(ultima'.turns) # <<>>
        /\ converte_nome_mensagem(retorna_nome_da_mensagem(ultima'.turns)) = <<>>)
       => (/\ ~ultima'.ret_b
           /\ arquivos' = arquivos
           /\ <<>> \notin DOMAIN arquivos')]_vars

C10_Witness ==
    /\ ultima.op = "salvar_mensagens"
    /\ Titulo = Pontuacao
    /\ Identificador = <<>>
    /\ ~ultima.ret_b
    /\ DOMAIN arquivos # {}

\* C11: no step of a session (prompt, save, load, list, decode, select, reload)
\* removes a file: every stored identifier is stored in the next state too.
C11_RecordsNeverDeleted ==
    [][DOMAIN arquivos \subseteq DOMAIN arquivos']_vars

C11_Witness ==
    /\ DOMAIN arquivos = {oi, <<"b">>}
    /\ arquivos[oi].mtime < arquivos[<<"b">>].mtime
    /\ ultima.op = "seleciona_conversa"
    /\ ultima.nome = oi
    /\ session_state.mensagens = arquivos[oi].conteudo.mensagem

\* A lookup the claim C12 is about: desconverte_nome_mensagem of an identifier
\* with no cache entry and no file, or ler_mensagem_por_nome_arquivo of an
\* identifier with no file, made in the step to the next state.
C12_BuscaAusente ==
    /\ ultima'.nome \notin DOMAIN arquivos
    /\ \/ ultima'.op = "ler_mensagem_por_nome_arquivo"
       \/ /\ ultima'.op = "desconverte_nome_mensagem"
          /\ ultima'.nome \notin DOMAIN CACHE_DESCONVERTE

\* C12 as stated: such a lookup raises the not-found error and adds no entry
\* to CACHE_DESCONVERTE.
C12_AbsentIsNotFound ==
    [][C12_BuscaAusente =>
           /\ ultima'.erro = "FileNotFoundError"
           /\ CACHE_DESCONVERTE' = CACHE_DESCONVERTE]_vars

\* C12 as amended: such a lookup raises and adds no entry to CACHE_DESCONVERTE;
\* the error is FileNotFoundError for a non-empty identifier and
\* IsADirectoryError for the empty one, whose path is the directory itself.
C12_AbsentRaises ==
    [][C12_BuscaAusente =>
           /\ ultima'.erro = IF ultima'.nome = <<>> THEN "IsADirectoryError"
                                                   ELSE "FileNotFoundError"
           /\ ultima'.ret_nome = <<>>
           /\ ultima'.ret_turns = <<>>
           /\ CACHE_DESCONVERTE' = CACHE_DESCONVERTE]_vars

C12_Witness ==
    /\ ultima.op = "desconverte_nome_mensagem"
    /\ ultima.nome = <<"a">>
    /\ ultima.erro = "FileNotFoundError"
    /\ <<"a">> \notin DOMAIN CACHE_DESCONVERTE
    /\ DOMAIN arquivos # {}
    /\ DOMAIN CACHE_DESCONVERTE # {}

\* C13: the step that completes an exchange leaves in the session the turns the
\* session held before the exchange (no select and no reload happens inside an
\* exchange), then the user turn of the prompt, then the assistant turn.
C13_AppendOnlySession ==
    [][(pc = "stream" /\ pc' = "ocioso") =>
           session_state'.mensagens =
               session_state.mensagens
                   \o <<mensagens[Len(mensagens)], Turno("assistant", resposta_completa)>>]_vars

\* The first min(n, Len) characters of the first user turn of ms are titulo.
C14_PrefixoDoPrimeiroUsuario(ms, titulo) ==
    \E k \in 1..Len(ms) :
        /\ ms[k].role = "user"
        /\ \A j \in 1..(k - 1) : ms[j].role # "user"
        /\ Len(titulo) <= TamanhoTitulo
        /\ Len(titulo) <= Len(ms[k].content)
        /\ Len(titulo) = TamanhoTitulo \/ Len(titulo) = Len(ms[k].content)
        /\ \A i \in 1..Len(titulo) : titulo[i] = ms[k].content[i]

\* C14: every stored record lies under the key of its nome_arquivo, its
\* nome_mensagem is the non-empty 30-character prefix of the first user turn
\* of its own turns, its nome_arquivo is converte_nome_mensagem of that title,
\* and ler_mensagens of its turns raises nothing and returns those turns.
C14_StoredRecordConsistency ==
    \A id \in DOMAIN arquivos :
        LET registro == arquivos[id].conteudo
        IN  /\ registro.nome_arquivo = id
            /\ registro.nome_mensagem # <<>>
            /\ C14_PrefixoDoPrimeiroUsuario(registro.mensagem, registro.nome_mensagem)
            /\ ~ConverteLevantaErro(registro.nome_mensagem)
            /\ registro.nome_arquivo = converte_nome_mensagem(registro.nome_mensagem)
            /\ AbreLeitura(arquivos, id) = ""
            /\ LerMensagensErro(arquivos, registro.mensagem) = ""
            /\ ler_mensagens(arquivos, registro.mensagem) = registro.mensagem

C14_Witness ==
    /\ DOMAIN arquivos = {oi, <<"b">>, Repete("c", TamanhoTitulo)}
    /\ arquivos[oi].conteudo.mensagem[1].role = "assistant"
    /\ arquivos[oi].conteudo.nome_mensagem = Oi
    /\ Len(arquivos[Repete("c", TamanhoTitulo)].conteudo.mensagem[1].content)
           > TamanhoTitulo
    /\ ultima.op = "ler_mensagem_por_nome_arquivo"
    /\ ultima.nome = oi
    /\ ultima.ret_turns = arquivos[oi].conteudo.mensagem

\* The turns ms are exchanges: a user turn, then an assistant turn, and so on.
C15_TrocasCompletas(ms) ==
    /\ Len(ms) % 2 = 0
    /\ \A k \in 1..Len(ms) :
           ms[k].role = IF k % 2 = 1 THEN "user" ELSE "assistant"

\* C15: the session's messages and every stored record hold whole exchanges
\* only; a step in which chat_openai or the stream raises changes neither the
\* session nor the store; inside the loop the session or the store changes
\* only when every fragment has been consumed, and then the last turns are the
\* prompt and the text of the whole stream, and what is written is the
\* session's messages.
C15_PersistedAfterExhaustion ==
    /\ [](/\ C15_TrocasCompletas(session_state.mensagens)
          /\ \A id \in DOMAIN arquivos :
                 C15_TrocasCompletas(arquivos[id].conteudo.mensagem))
    /\ [][/\ ultima'.erro = "APIError" =>
               (session_state' = session_state /\ arquivos' = arquivos)
          /\ (pc = "stream" /\ (session_state' # session_state \/ arquivos' # arquivos)) =>
               /\ pos = Len(respostas)
               /\ session_state'.mensagens =
                      Append(mensagens,
                             Turno("assistant", ConteudoDosFragmentos(respostas)))
               /\ \A id \in DOMAIN arquivos' :
                      (id \notin DOMAIN arquivos \/ arquivos'[id] # arquivos[id])
                      => arquivos'[id].conteudo.mensagem = session_state'.mensagens]_vars

C15_Witness ==
    /\ pc = "falhou"
    /\ ultima.op = "respostas"
    /\ ultima.erro = "APIError"
    /\ ultima.havia
    /\ Len(ultima.turns) = 3
    /\ session_state.mensagens = SubSeq(ultima.turns, 1, 2)
    /\ DOMAIN arquivos = {<<"b">>}
    /\ arquivos[<<"b">>].conteudo.mensagem = session_state.mensagens

\* C16: while conversa_atual is not empty, the identifier of the session's
\* messages is conversa_atual; seleciona_conversa(id) leaves in the session the
\* turns of the record at id and the identifier id, seleciona_conversa('')
\* leaves no turns, and neither changes the store or the cache.
C16_CurrentConversation ==
    /\ [](session_state.conversa_atual # <<>> =>
            /\ retorna_nome_da_mensagem(session_state.mensagens) # <<>>
            /\ converte_nome_mensagem(retorna_nome_da_mensagem(session_state.mensagens))
                   = session_state.conversa_atual)
    /\ [][ultima'.op = "seleciona_conversa" =>
             /\ session_state'.conversa_atual = ultima'.nome
             /\ session_state'.mensagens =
                    IF ultima'.nome = <<>> THEN <<>>
                    ELSE arquivos[ultima'.nome].conteudo.mensagem
             /\ arquivos' = arquivos
             /\ CACHE_DESCONVERTE' = CACHE_DESCONVERTE]_vars

C16_Witness ==
    /\ session_state.conversa_atual = <<"b">>
    /\ SalvouComSucesso
    /\ Len(session_state.mensagens) = 4
    /\ session_state.mensagens[3].content = Oi
    /\ arquivos[<<"b">>].conteudo.mensagem = session_state.mensagens

====
